---- MODULE Spec2Model ----
(***************************************************************************)
(* Model of the batch-call composer (class Relayer) of balancer-js:        *)
(* modules/relayer/relayer.module.ts.                                      *)
(*                                                                         *)
(* Amounts are ethers BigNumbers.  They are modelled exactly, as           *)
(* little-endian sequences of limbs in base 10^3 (the decimal string the   *)
(* code passes around, three digits per limb), because the values the      *)
(* code computes (10^18 fixed point, 256-bit chained references) do not    *)
(* fit a machine integer.  Only non-negative values occur.                 *)
(***************************************************************************)
EXTENDS Integers, Sequences, FiniteSets, TLC

\* ------------------------------------------------------------------------
\* BigNumber arithmetic (ethers BigNumber: arbitrary precision, div truncates)
\* ------------------------------------------------------------------------

Base == 10^3

Limb(a, i) == IF i >= 1 /\ i <= Len(a) THEN a[i] ELSE 0

MaxOf(S) == CHOOSE m \in S : \A j \in S : j <= m

\* canonical form: no leading (high) zero limbs, zero is <<0>>
Norm(a) ==
    LET nz == {i \in 1..Len(a) : a[i] # 0}
    IN  IF nz = {} THEN <<0>> ELSE SubSeq(a, 1, MaxOf(nz))

\* BigNumber.from(n) for a natural n below Base^3
BN(n) == Norm(<<n % Base, (n \div Base) % Base, n \div (Base * Base)>>)

\* BN's inverse for a value below Base^3
BnSmall(a) == Limb(a, 1) + Base * Limb(a, 2) + Base * Base * Limb(a, 3)

BnIsZero(a) == Norm(a) = <<0>>

\* TRUE, once the operand's value is computed: an operation computes its
\* operands before it walks their limbs
Evaluated(x) == x = x

\* a * Base^k
BnShift(a, k) == [i \in 1..k |-> 0] \o a

RECURSIVE AddRange(_, _, _, _, _)
\* limbs lo..hi of a + b, c the carry into limb lo: <<the limbs, the carry out>>;
\* the range is halved, so that the recursion is shallow
AddRange(a, b, lo, hi, c) ==
    IF lo > hi THEN <<<<>>, c>>
    ELSE IF lo = hi
    THEN LET s == Limb(a, lo) + Limb(b, lo) + c
         IN  <<<<s % Base>>, s \div Base>>
    ELSE LET mid == (lo + hi) \div 2
             low == AddRange(a, b, lo, mid, c)
             high == AddRange(a, b, mid + 1, hi, low[2])
         IN  <<low[1] \o high[1], high[2]>>

\* BigNumber.add
BnAdd(a, b) ==
    LET r == AddRange(a, b, 1, IF Len(a) > Len(b) THEN Len(a) ELSE Len(b), 0)
    IN  CASE Evaluated(a) /\ Evaluated(b) -> Norm(r[1] \o <<r[2]>>)

\* -1, 0 or 1 as a < b, a = b, a > b
BnCmp(a, b) ==
    LET n == IF Len(a) > Len(b) THEN Len(a) ELSE Len(b)
        d == {i \in 1..n : Limb(a, i) # Limb(b, i)}
    IN  IF ~(Evaluated(a) /\ Evaluated(b)) \/ d = {} THEN 0
        ELSE IF Limb(a, MaxOf(d)) < Limb(b, MaxOf(d)) THEN -1 ELSE 1

BnLe(a, b) == BnCmp(a, b) <= 0
BnLt(a, b) == BnCmp(a, b) < 0

RECURSIVE SubRange(_, _, _, _, _)
\* limbs lo..hi of a - b, w the borrow out of limb lo - 1:
\* <<the limbs, the borrow out>>
SubRange(a, b, lo, hi, w) ==
    IF lo > hi THEN <<<<>>, w>>
    ELSE IF lo = hi
    THEN LET d == Limb(a, lo) - Limb(b, lo) - w
         IN  <<<<(d + Base) % Base>>, IF d < 0 THEN 1 ELSE 0>>
    ELSE LET mid == (lo + hi) \div 2
             low == SubRange(a, b, lo, mid, w)
             high == SubRange(a, b, mid + 1, hi, low[2])
         IN  <<low[1] \o high[1], high[2]>>

\* BigNumber.sub, for a >= b
BnSub(a, b) ==
    CASE Evaluated(a) /\ Evaluated(b) -> Norm(SubRange(a, b, 1, Len(a), 0)[1])

RECURSIVE MulSmallRange(_, _, _, _, _)
\* limbs lo..hi of a * m, c the carry into limb lo: <<the limbs, the carry out>>
MulSmallRange(a, m, lo, hi, c) ==
    IF lo > hi THEN <<<<>>, c>>
    ELSE IF lo = hi
    THEN LET p == a[lo] * m + c
         IN  <<<<p % Base>>, p \div Base>>
    ELSE LET mid == (lo + hi) \div 2
             low == MulSmallRange(a, m, lo, mid, c)
             high == MulSmallRange(a, m, mid + 1, hi, low[2])
         IN  <<low[1] \o high[1], high[2]>>

\* a * m for a natural m below Base^2
BnMulSmall(a, m) ==
    LET r == MulSmallRange(a, m, 1, Len(a), 0)
        c == r[2]
    IN  CASE Evaluated(a) /\ Evaluated(m) ->
            Norm(r[1] \o <<c % Base, (c \div Base) % Base, c \div (Base * Base)>>)

RECURSIVE DivSmallRange(_, _, _, _, _)
\* limbs lo..hi of a divided by a natural d below Base^2, rem the remainder
\* of the limbs above hi: <<the quotient's limbs, the remainder>>
DivSmallRange(a, d, lo, hi, rem) ==
    IF lo > hi THEN <<<<>>, rem>>
    ELSE IF lo = hi
    THEN LET r == rem * Base + a[lo]
         IN  <<<<r \div d>>, r % d>>
    ELSE LET mid == (lo + hi) \div 2
             high == DivSmallRange(a, d, mid + 1, hi, rem)
             low == DivSmallRange(a, d, lo, mid, high[2])
         IN  IF high[2] < 0 THEN high   \* never: the high half is taken first
             ELSE <<low[1] \o high[1], low[2]>>

\* <<a \div d, a % d>> for a natural d below Base^2
DivSmall(a, d) ==
    CASE Evaluated(a) /\ Evaluated(d) -> DivSmallRange(a, d, 1, Len(a), 0)

RECURSIVE MulRange(_, _, _, _)
\* a * (limbs lo..hi of b, taken as a number)
MulRange(a, b, lo, hi) ==
    IF lo > hi THEN <<0>>
    ELSE IF lo = hi THEN BnMulSmall(a, b[lo])
    ELSE LET mid == (lo + hi) \div 2
         IN  BnAdd(MulRange(a, b, lo, mid),
                   BnShift(MulRange(a, b, mid + 1, hi), mid - lo + 1))

\* BigNumber.mul
BnMul(a, b) ==
    CASE Evaluated(a) /\ Evaluated(b) -> Norm(MulRange(a, b, 1, Len(b)))

RECURSIVE QuotDown(_, _, _)
\* the largest q' <= q with q' * b <= r
QuotDown(r, b, q) ==
    IF q <= 0 \/ BnLe(BnMulSmall(b, q), r) THEN q ELSE QuotDown(r, b, q - 1)

\* the quotient limb of r by b, for b <= r < b * Base: the estimate from the
\* three top limbs of r over the two top limbs of b is never too small, and
\* too large by two at most
QuotDigit(r, b) ==
    LET n == Len(b)
        rtop == (Limb(r, n + 1) * Base + Limb(r, n)) * Base + Limb(r, n - 1)
        btop == b[n] * Base + Limb(b, n - 1)
        qhat == rtop \div btop
    IN  QuotDown(r, b, IF qhat > Base - 1 THEN Base - 1 ELSE qhat)

RECURSIVE DivRange(_, _, _, _, _)
\* long division by b over limbs lo..hi of a, rem the remainder of the limbs
\* above hi: <<the quotient's limbs, the remainder>>
DivRange(a, b, lo, hi, rem) ==
    IF lo > hi THEN <<<<>>, rem>>
    ELSE IF lo = hi
    THEN LET r1 == Norm(<<a[lo]>> \o rem)
             q  == IF BnLt(r1, b) THEN 0 ELSE QuotDigit(r1, b)
         IN  <<<<q>>, IF q = 0 THEN r1 ELSE BnSub(r1, BnMulSmall(b, q))>>
    ELSE LET mid == (lo + hi) \div 2
             high == DivRange(a, b, mid + 1, hi, rem)
             low == DivRange(a, b, lo, mid, high[2])
         IN  IF Len(high[2]) = 0 THEN high   \* never: the high half is taken first
             ELSE <<low[1] \o high[1], low[2]>>

\* BigNumber.div, for b > 0: the quotient truncated
BnDiv(a, b) ==
    CASE Evaluated(a) /\ Evaluated(b) -> Norm(DivRange(a, b, 1, Len(a), <<0>>)[1])

RECURSIVE BnPow(_, _)
\* m^e for a natural m below Base^2, by squaring
BnPow(m, e) ==
    IF e = 0 THEN <<1>>
    ELSE IF e % 2 = 1 THEN BnMulSmall(BnPow(m, e - 1), m)
    ELSE LET half == BnPow(m, e \div 2)
         IN  CASE Evaluated(half) -> BnMul(half, half)

\* @ethersproject/constants
Zero == <<0>>
\* 10^18
WeiPerEther == <<0, 0, 0, 0, 0, 0, 1>>

\* the value of hex digits lo..hi of h, at most four
HexGroup(h, lo, hi) ==
    IF lo > hi THEN 0
    ELSE LET d(k) == IF lo + k <= hi THEN h[hi - k] * 16^k ELSE 0
         IN  d(0) + d(1) + d(2) + d(3)

RECURSIVE FromHexRange(_, _, _)
\* the value of hex digits lo..hi of h, most significant first; the range is
\* halved
FromHexRange(h, lo, hi) ==
    IF hi - lo < 4 THEN BN(HexGroup(h, lo, hi))
    ELSE LET mid == (lo + hi) \div 2
         IN  BnAdd(BnMul(FromHexRange(h, lo, mid), BnPow(16, hi - mid)),
                   FromHexRange(h, mid + 1, hi))

\* BigNumber.from("0x..."): h is the string's hex digits, most significant first
BnFromHex(h) == FromHexRange(h, 1, Len(h))

RECURSIVE ToHexRange(_, _)
\* the n least significant hex digits of a value a below 16^n, most
\* significant first; the digits are halved
ToHexRange(a, n) ==
    IF n <= 4
    THEN LET v == BnSmall(a)
         IN  SubSeq(<<v \div 4096, (v \div 256) % 16, (v \div 16) % 16, v % 16>>,
                    5 - n, 4)
    ELSE LET k == n \div 2
             p == BnPow(16, k)
             q == BnDiv(a, p)
             r == BnSub(a, BnMul(q, p))
         IN  CASE Evaluated(q) /\ Evaluated(r) ->
                 ToHexRange(q, n - k) \o ToHexRange(r, k)

\* the hex digits of a, most significant first: three decimal digits take
\* less than three hex digits
ToHexDigits(a) == ToHexRange(a, 3 * Len(a))

RECURSIVE StripZeros(_)
StripZeros(h) == IF Len(h) > 0 /\ h[1] = 0 THEN StripZeros(Tail(h)) ELSE h

\* the value's hex digits, most significant first, left-padded with zeros to n
\* digits (hexZeroPad of toHexString); longer when the value needs more
BnToHex(a, n) ==
    LET h == StripZeros(ToHexDigits(a))
    IN  IF Len(h) >= n THEN h ELSE [i \in 1..(n - Len(h)) |-> 0] \o h

\* ------------------------------------------------------------------------
\* Chained references
\* ------------------------------------------------------------------------

\* 'ba10' as hex digits
CHAINED_REFERENCE_PREFIX == <<11, 10, 1, 0>>

paddedPrefix_PadFull ==
    CHAINED_REFERENCE_PREFIX \o [i \in 1..64 |-> 0]

\* `0x${prefix}${'0'.repeat(64 - prefix.length)}`, without the 0x
paddedPrefix ==
    CHAINED_REFERENCE_PREFIX \o [i \in 1..(64 - Len(CHAINED_REFERENCE_PREFIX)) |-> 0]

\* BigNumber.from(paddedPrefix)
paddedPrefixValue == BnFromHex(paddedPrefix)

toChainedReference_NoAdd(key) == paddedPrefixValue

\* BigNumber.from(paddedPrefix).add(key)
toChainedReference(key) == BnAdd(paddedPrefixValue, key)

\* ------------------------------------------------------------------------
\* Strings, arrays (JavaScript indices start at 0)
\* ------------------------------------------------------------------------

\* String.prototype.toLowerCase on the address strings that occur; every
\* other string that occurs is lower case already
toLowerCase(str) ==
    CASE str = "0xAA" -> "0xaa"
      [] str = "0xBB" -> "0xbb"
      [] str = "0xCC" -> "0xcc"
      [] str = "0xWA" -> "0xwa"
      [] str = "0xWB" -> "0xwb"
      [] str = "0x1A" -> "0x1a"
      [] OTHER -> str

AddressZero == "0x00"

\* Array.prototype.indexOf / findIndex / find: the first of the matching
\* positions hits (counted from 1) as an index from 0, or -1
FirstIndex(hits) ==
    IF hits = {} THEN -1
    ELSE (CHOOSE i \in hits : \A j \in hits : i <= j) - 1

indexOf(arr, x) == FirstIndex({i \in 1..Len(arr) : arr[i] = x})

\* findIndex((e) => e.toLowerCase() === x.toLowerCase())
findIndexLower(arr, x) ==
    FirstIndex({i \in 1..Len(arr) : toLowerCase(arr[i]) = toLowerCase(x)})

includes(arr, x) == \E i \in 1..Len(arr) : arr[i] = x

MapLower(arr) == [i \in 1..Len(arr) |-> toLowerCase(arr[i])]

\* ------------------------------------------------------------------------
\* Pools: what swaps.getPools() returns (SubgraphPoolBase[])
\* An optional number field is <<>> when undefined and <<n>> otherwise.
\* ------------------------------------------------------------------------

Token(address, decimals, priceRate) ==
    [address |-> address, decimals |-> decimals, priceRate |-> priceRate]

Pool(id, address, poolType, tokens, mainIndex, wrappedIndex, factory) ==
    [id |-> id, address |-> address, poolType |-> poolType,
     tokensList |-> [i \in 1..Len(tokens) |-> tokens[i].address],
     tokens |-> tokens, mainIndex |-> mainIndex, wrappedIndex |-> wrappedIndex,
     factory |-> factory]

\* linear pool of 0xaa and its wrapper 0xwa, from the factory tagged 'yearn'
LinearA ==
    Pool("pool-la", "0x1a", "Linear",
         <<Token("0xaa", 6, "1"), Token("0xwa", 6, "2"), Token("0x1a", 18, "1")>>,
         <<0>>, <<1>>, "0xf1")

\* linear pool of 0xbb and its wrapper 0xwb, from the factory tagged 'boo'
LinearB ==
    Pool("pool-lb", "0x1b", "Linear",
         <<Token("0xwb", 18, "1.5"), Token("0xbb", 18, "1"), Token("0x1b", 18, "1")>>,
         <<1>>, <<0>>, "0xf2")

\* linear pool of 0xcc and its wrapper 0xwc: no wrappedIndex, unknown factory
LinearC ==
    Pool("pool-lc", "0x1c", "Linear",
         <<Token("0xwc", 18, "1"), Token("0xcc", 18, "1"), Token("0x1c", 18, "1")>>,
         <<1>>, <<>>, "0xf9")

\* linear pool of 0xdd and its wrapper 0xwd, from a factory without a tag
LinearD ==
    Pool("pool-ld", "0x1d", "Linear",
         <<Token("0xdd", 18, "1"), Token("0xwd", 18, "1"), Token("0x1d", 18, "1")>>,
         <<0>>, <<1>>, "0xf9")

\* the linear pool of 0xaa again, listed with the factory tagged 'aave'
LinearA2 ==
    Pool("pool-la", "0x1a", "Linear",
         <<Token("0xaa", 6, "1"), Token("0xwa", 6, "1.5"), Token("0x1a", 18, "1")>>,
         <<0>>, <<1>>, "0xf3")

\* weighted pool that nests the two linear pools LinearA and LinearB
WeightedAB ==
    Pool("pool-wp", "0xwp", "Weighted",
         <<Token("0x1a", 18, "1"), Token("0xcc", 18, "1"), Token("0x1b", 18, "1")>>,
         <<>>, <<>>, "0xf0")

\* composite stable pool of the linear pools' BPT
PhantomAC ==
    Pool("pool-sp", "0xsp", "StablePhantom",
         <<Token("0x1a", 18, "1"), Token("0x1c", 18, "1"), Token("0xsp", 18, "1")>>,
         <<>>, <<>>, "0xf0")

\* weighted pool that nests the composite stable pool
WeightedSP ==
    Pool("pool-wp", "0xwp", "Weighted",
         <<Token("0xsp", 18, "1"), Token("0xcc", 18, "1")>>,
         <<>>, <<>>, "0xf0")

\* stable pool of 0xaa and 0xbb: it nests no pool
StableAB ==
    Pool("pool-st", "0xst", "Stable",
         <<Token("0xaa", 6, "1"), Token("0xbb", 18, "1")>>,
         <<>>, <<>>, "0xf0")

\* the pool lists the router can hold after a fetch
PoolLists ==
    { <<WeightedAB, LinearA, LinearB, LinearD, StableAB>>,
      <<WeightedSP, PhantomAC, LinearA2, LinearC>> }

\* config.addresses.linearFactories
linearFactories(factory) ==
    CASE factory = "0xf1" -> <<"yearn">>
      [] factory = "0xf2" -> <<"boo">>
      [] factory = "0xf3" -> <<"aave">>
      [] OTHER -> <<>>

\* config.addresses.tokens.wrappedNativeAsset
wrappedNativeAssetConfig == "0xCC"

\* config.addresses.contracts.batchRelayer
batchRelayerAddress == "0xre"

\* ------------------------------------------------------------------------
\* Lookups over the pool list
\* ------------------------------------------------------------------------

\* (x || 0) for an optional number
orZero(opt) == IF opt = <<>> THEN 0 ELSE opt[1]

isLinear(pool) == pool.poolType = "Linear"

\* the keyBy iteratee of linearPoolWrappedTokenMap
wrappedTokenKey(pool) == pool.tokensList[orZero(pool.wrappedIndex) + 1]

\* this.linearPoolWrappedTokenMap[address]: <<>> when absent, else <<pool>>;
\* of two linear pools with one key, keyBy keeps the later
linearPoolWrappedTokenMap(pools, address) ==
    LET hits == {i \in 1..Len(pools) :
                    isLinear(pools[i]) /\ wrappedTokenKey(pools[i]) = address}
    IN  IF hits = {} THEN <<>> ELSE <<pools[MaxOf(hits)]>>

\* Object.keys(this.linearPoolWrappedTokenMap): each key once, in the order
\* of its first pool
linearPoolWrappedTokenKeys(pools) ==
    LET first(i) == /\ isLinear(pools[i])
                    /\ \A j \in 1..(i - 1) :
                          ~(isLinear(pools[j])
                            /\ wrappedTokenKey(pools[j]) = wrappedTokenKey(pools[i]))
        idx == SelectSeq([i \in 1..Len(pools) |-> i], first)
    IN  [k \in 1..Len(idx) |-> wrappedTokenKey(pools[idx[k]])]

Found(v) == [ok |-> TRUE, value |-> v, error |-> <<>>]
Thrown(msg, arg) == [ok |-> FALSE, value |-> <<>>, error |-> <<msg, arg>>]

getRequiredPool_AnyPool(pools, poolId) ==
    IF Len(pools) > 0 THEN Found(pools[1])
    ELSE Thrown("No pool found with id: ", poolId)

getRequiredPool(pools, poolId) ==
    LET k == FirstIndex({i \in 1..Len(pools) : pools[i].id = poolId})
    IN  IF k = -1 THEN Thrown("No pool found with id: ", poolId)
        ELSE Found(pools[k + 1])

getRequiredLinearPoolForWrappedToken(pools, wrappedToken) ==
    LET k == FirstIndex({i \in 1..Len(pools) :
                 /\ pools[i].wrappedIndex # <<>>
                 /\ pools[i].wrappedIndex[1] + 1 <= Len(pools[i].tokensList)
                 /\ pools[i].tokensList[pools[i].wrappedIndex[1] + 1] = wrappedToken})
    IN  IF k = -1 THEN Thrown("No linear pool found for wrapped token: ", wrappedToken)
        ELSE Found(pools[k + 1])

getLinearPoolType(pool) ==
    IF linearFactories(pool.factory) # <<>>
    THEN linearFactories(pool.factory)[1]
    ELSE "aave"

\* ------------------------------------------------------------------------
\* encodeUnwrapCalls.  An encoded call is the record of what was encoded.
\* ------------------------------------------------------------------------

OutputReference(index, key) == [index |-> index, key |-> key]

\* the switch over the linear pool type: the calls pushed for one token
unwrapCallsFor_NoBoo(linearPoolType, wrappedToken, funds, key) ==
    CASE linearPoolType = "aave" ->
           <<[kind |-> "aaveUnwrap", staticToken |-> wrappedToken,
              sender |-> funds.recipient, recipient |-> funds.sender,
              amount |-> key, toUnderlying |-> TRUE, outputReferences |-> Zero]>>
      [] linearPoolType = "yearn" ->
           <<[kind |-> "yearnUnwrap", vaultToken |-> wrappedToken,
              sender |-> funds.recipient, recipient |-> funds.sender,
              amount |-> key, outputReference |-> Zero]>>
      [] OTHER -> <<>>

unwrapCallsFor(linearPoolType, wrappedToken, funds, key) ==
    CASE linearPoolType = "aave" ->
           <<[kind |-> "aaveUnwrap", staticToken |-> wrappedToken,
              sender |-> funds.recipient, recipient |-> funds.sender,
              amount |-> key, toUnderlying |-> TRUE, outputReferences |-> Zero]>>
      [] linearPoolType = "yearn" ->
           <<[kind |-> "yearnUnwrap", vaultToken |-> wrappedToken,
              sender |-> funds.recipient, recipient |-> funds.sender,
              amount |-> key, outputReference |-> Zero]>>
      [] linearPoolType = "boo" ->
           <<[kind |-> "booLeave",
              sender |-> funds.recipient, recipient |-> funds.sender,
              amount |-> key, outputReference |-> Zero]>>
      [] OTHER -> <<>>

RECURSIVE unwrapFrom(_, _, _, _, _)
\* wrappedTokens.forEach from position i (0-based) on: what is pushed, or the
\* error thrown
unwrapFrom(pools, wrappedTokens, assets, funds, i) ==
    IF i >= Len(wrappedTokens)
    THEN [ok |-> TRUE, error |-> <<>>, unwrapCalls |-> <<>>, outputReferences |-> <<>>]
    ELSE LET wrappedToken == wrappedTokens[i + 1]
             linearPool == getRequiredLinearPoolForWrappedToken(pools, wrappedToken)
             rest == unwrapFrom(pools, wrappedTokens, assets, funds, i + 1)
             index == findIndexLower(assets, wrappedToken)
             key == toChainedReference(BN(i))
         IN  IF ~linearPool.ok
             THEN [ok |-> FALSE, error |-> linearPool.error,
                   unwrapCalls |-> <<>>, outputReferences |-> <<>>]
             ELSE IF ~rest.ok \/ index = -1 THEN rest
             ELSE [ok |-> TRUE, error |-> <<>>,
                   unwrapCalls |->
                       unwrapCallsFor(getLinearPoolType(linearPool.value),
                                      wrappedToken, funds, key) \o rest.unwrapCalls,
                   outputReferences |->
                       <<OutputReference(index, key)>> \o rest.outputReferences]

encodeUnwrapCalls_ThrowIfAbsent(pools, wrappedTokens, assets, funds) ==
    IF \E i \in 1..Len(wrappedTokens) : findIndexLower(assets, wrappedTokens[i]) = -1
    THEN [ok |-> FALSE, error |-> <<"No swap for wrapped token", "">>,
          unwrapCalls |-> <<>>, outputReferences |-> <<>>]
    ELSE unwrapFrom(pools, wrappedTokens, assets, funds, 0)

encodeUnwrapCalls(pools, wrappedTokens, assets, funds) ==
    unwrapFrom(pools, wrappedTokens, assets, funds, 0)

\* ------------------------------------------------------------------------
\* exitPoolAndBatchSwap: the part before the router query, and the part after
\* ------------------------------------------------------------------------

\* BigNumber.from(amt).mul(factor).div(WeiPerEther)
mulDivWei_RoundUp(amt, factor) ==
    BnDiv(BnAdd(BnMul(amt, factor), BnSub(WeiPerEther, <<1>>)), WeiPerEther)

mulDivWei(amt, factor) == BnDiv(BnMul(amt, factor), WeiPerEther)

\* WeiPerEther.sub(BigNumber.from(params.slippage))
slippageAmountNegative(params) == BnSub(WeiPerEther, params.slippage)

\* WeiPerEther.add(params.slippage)
slippageAmountPositive(params) == BnAdd(WeiPerEther, params.slippage)

exitMinAmountsOut(params) ==
    [i \in 1..Len(params.expectedAmountsOut) |->
        mulDivWei(params.expectedAmountsOut[i], slippageAmountNegative(params))]

\* the exit's outputReferences: one per exit token
exitOutputReferences(params) ==
    [i \in 1..Len(params.exitTokens) |->
        OutputReference(i - 1, toChainedReference(BN(i - 1)))]

\* vaultActionsService.constructExitCall(...)
exitCallOf(params) ==
    [kind |-> "exitPool",
     assets |-> params.exitTokens,
     minAmountsOut |-> exitMinAmountsOut(params),
     userData |-> params.userData,
     toInternalBalance |-> TRUE,
     poolId |-> params.poolId,
     poolKind |-> 0,
     sender |-> params.exiter,
     recipient |-> params.exiter,
     outputReferences |-> exitOutputReferences(params)]

\* the argument of swaps.queryBatchSwapWithSor
exitQuery(params, exitCall) ==
    [tokensIn |-> params.exitTokens,
     tokensOut |-> params.batchSwapTokensOut,
     swapType |-> "SwapExactIn",
     amounts |-> exitCall.minAmountsOut,
     fetchPools |-> params.fetchPools]

\* step 4, as written: the lower-cased exit tokens are searched for the
\* router's asset string as it is
exitSwapAmounts(params, queryResult) ==
    LET exitTokens == MapLower(params.exitTokens)
        refs == exitOutputReferences(params)
    IN  [k \in 1..Len(queryResult.swaps) |->
            LET swap == queryResult.swaps[k]
                index == IF swap.assetInIndex < Len(queryResult.assets)
                         THEN indexOf(exitTokens, queryResult.assets[swap.assetInIndex + 1])
                         ELSE -1
            IN  IF index # -1 THEN [swap EXCEPT !.amount = refs[index + 1].key]
                ELSE swap]

RECURSIVE exitDeltasFrom(_, _, _, _)
\* params.exitTokens.forEach from position i (1-based) on, over deltas
exitDeltasFrom(params, assets, deltas, i) ==
    IF i > Len(params.exitTokens) THEN deltas
    ELSE LET index == indexOf(MapLower(assets), toLowerCase(params.exitTokens[i]))
             d == IF index # -1 /\ index < Len(deltas)
                  THEN [deltas EXCEPT ![index + 1] =
                           mulDivWei(params.expectedAmountsOut[i],
                                     slippageAmountPositive(params))]
                  ELSE deltas
         IN  IF Len(d) < 0 THEN d ELSE exitDeltasFrom(params, assets, d, i + 1)

\* step 5
exitDeltas(params, queryResult) ==
    exitDeltasFrom(params, queryResult.assets, queryResult.deltas, 1)

\* Swaps.getLimitsForSlippage(...): the Swaps module's; kept as its arguments
getLimitsForSlippage(tokensIn, tokensOut, swapType, deltas, assets, slippage) ==
    [tokensIn |-> tokensIn, tokensOut |-> tokensOut, swapType |-> swapType,
     deltas |-> deltas, assets |-> assets, slippage |-> slippage]

exitFunds(params) ==
    [sender |-> params.exiter, recipient |-> params.swapRecipient,
     fromInternalBalance |-> TRUE, toInternalBalance |-> FALSE]

\* parseFloat(priceRate), in halves: the rates that occur are multiples of 0.5
parseFloatHalves(priceRate) ==
    CASE priceRate = "1" -> 2
      [] priceRate = "1.5" -> 3
      [] priceRate = "2" -> 4

\* parseFloat(returnAmount) * parseFloat(priceRate), in halves; the amounts
\* that occur are below 2^53, where the product is exact
unwrappedHalves(pools, params, queryResult, i) ==
    LET asset == toLowerCase(params.batchSwapTokensOut[i])
        hit == linearPoolWrappedTokenMap(pools, asset)
        linearPool == hit[1]
        priceRate == linearPool.tokens[orZero(linearPool.wrappedIndex) + 1].priceRate
    IN  IF hit # <<>>
        THEN BnSmall(queryResult.returnAmounts[i]) * parseFloatHalves(priceRate)
        ELSE BnSmall(queryResult.returnAmounts[i]) * 2

\* the return amounts after `if (params.unwrap) { ... }`: <<>> stands for a
\* string that is no integer, which BigNumber.from rejects
exitReturnAmounts_NoRate(pools, params, queryResult) == queryResult.returnAmounts

exitReturnAmounts(pools, params, queryResult) ==
    IF params.unwrap
    THEN [i \in 1..Len(queryResult.returnAmounts) |->
            LET h == unwrappedHalves(pools, params, queryResult, i)
            IN  IF h % 2 = 0 THEN BN(h \div 2) ELSE <<>>]
    ELSE queryResult.returnAmounts

\* the wrapped tokens found in the query result's assets
exitWrappedTokens(pools, queryResult) ==
    LET keys == linearPoolWrappedTokenKeys(pools)
        P(wrappedToken) == includes(queryResult.assets, wrappedToken)
    IN  SelectSeq(keys, P)

NoUnwrap == [ok |-> TRUE, error |-> <<>>, unwrapCalls |-> <<>>, outputReferences |-> <<>>]

\* vaultActionsService.encodeBatchSwap(...)
BatchSwapCall(swaps, assets, funds, limits, value, outputReferences) ==
    [kind |-> "batchSwap", swapType |-> "SwapExactIn", swaps |-> swaps,
     assets |-> assets, funds |-> funds, limits |-> limits,
     deadline |-> "MaxUint256", value |-> value,
     outputReferences |-> outputReferences]

Returned(op, calls, amountsOut) ==
    [op |-> op, status |-> "returned", error |-> <<>>,
     function |-> "multicall", params |-> calls, amountsOut |-> amountsOut]

Rejected(op, error) ==
    [op |-> op, status |-> "rejected", error |-> error,
     function |-> "", params |-> <<>>, amountsOut |-> <<>>]

\* everything after `await this.swaps.queryBatchSwapWithSor(...)`; exitCall is
\* the call constructed before the await
exitAfterQuery(pools, params, exitCall, queryResult) ==
    LET swaps == exitSwapAmounts(params, queryResult)
        deltas == exitDeltas(params, queryResult)
        limits == getLimitsForSlippage(params.exitTokens, params.batchSwapTokensOut,
                                       "SwapExactIn", deltas, queryResult.assets, Zero)
        funds == exitFunds(params)
        unwrap == IF params.unwrap
                  THEN encodeUnwrapCalls(pools, exitWrappedTokens(pools, queryResult),
                                         queryResult.assets, funds)
                  ELSE NoUnwrap
        returnAmounts == exitReturnAmounts(pools, params, queryResult)
        encodedBatchSwap == BatchSwapCall(swaps, queryResult.assets, funds, limits,
                                          Zero, unwrap.outputReferences)
        calls == <<exitCall, encodedBatchSwap>> \o unwrap.unwrapCalls
    IN  IF ~unwrap.ok THEN Rejected("exitPoolAndBatchSwap", unwrap.error)
        ELSE IF \E i \in 1..Len(returnAmounts) : returnAmounts[i] = <<>>
        THEN Rejected("exitPoolAndBatchSwap", <<"invalid BigNumber string", "">>)
        ELSE Returned("exitPoolAndBatchSwap", calls,
                      [i \in 1..Len(returnAmounts) |->
                          mulDivWei(returnAmounts[i], slippageAmountPositive(params))])

\* ------------------------------------------------------------------------
\* joinPool: the part before the router query, and the part after
\* ------------------------------------------------------------------------

\* this.linearPoolMap[address]: <<>> when absent, else <<pool>>
linearPoolMap(pools, address) ==
    LET hits == {i \in 1..Len(pools) :
                    isLinear(pools[i]) /\ pools[i].address = address}
    IN  IF hits = {} THEN <<>> ELSE <<pools[MaxOf(hits)]>>

\* this.stablePhantomMap[address]: <<>> when absent, else <<pool>>
stablePhantomMap(pools, address) ==
    LET hits == {i \in 1..Len(pools) :
                    pools[i].poolType = "StablePhantom" /\ pools[i].address = address}
    IN  IF hits = {} THEN <<>> ELSE <<pools[MaxOf(hits)]>>

NestedLinearPool(linearPool, poolTokenAddress) ==
    [pool |-> linearPool,
     mainToken |-> linearPool.tokensList[orZero(linearPool.mainIndex) + 1],
     wrappedToken |-> linearPool.tokensList[orZero(linearPool.wrappedIndex) + 1],
     poolTokenAddress |-> poolTokenAddress]

RECURSIVE ConcatAll(_)
ConcatAll(seqs) ==
    IF Len(seqs) = 0 THEN <<>> ELSE Head(seqs) \o ConcatAll(Tail(seqs))

\* what one token of the pool pushes onto linearPools
nestedLinearPoolsOf(pools, token) ==
    LET linear == linearPoolMap(pools, token)
        phantom == stablePhantomMap(pools, token)
    IN  IF linear # <<>> THEN <<NestedLinearPool(linear[1], linear[1].address)>>
        ELSE IF phantom # <<>>
        THEN ConcatAll([k \in 1..Len(phantom[1].tokensList) |->
                 LET inner == linearPoolMap(pools, phantom[1].tokensList[k])
                 IN  IF inner # <<>>
                     THEN <<NestedLinearPool(inner[1], phantom[1].address)>>
                     ELSE <<>>])
        ELSE <<>>

getNestedLinearPools(pools, pool) ==
    ConcatAll([k \in 1..Len(pool.tokensList) |->
                  nestedLinearPoolsOf(pools, pool.tokensList[k])])

\* a decimal string: the digits before the point as a number, and the digits
\* after it
Decimal(whole, frac) == [whole |-> whole, frac |-> frac]

RECURSIVE DigitsValue(_)
DigitsValue(digits) ==
    IF Len(digits) = 0 THEN 0
    ELSE DigitsValue(SubSeq(digits, 1, Len(digits) - 1)) * 10 + digits[Len(digits)]

\* parseFixed(amount, decimals): the amount in units of 10^-decimals; throws
\* when the amount has more fractional digits than decimals
parseFixed(amount, decimals) ==
    IF Len(amount.frac) > decimals
    THEN Thrown("fractional component exceeds decimals", "")
    ELSE Found(BnMul(BN(amount.whole * 10^Len(amount.frac) + DigitsValue(amount.frac)),
                     BnPow(10, decimals - Len(amount.frac))))

\* tokens.find((token) => token.address.toLowerCase() === a.toLowerCase())
findToken(tokens, a) ==
    LET k == findIndexLower([i \in 1..Len(tokens) |-> tokens[i].address], a)
    IN  IF k = -1 THEN <<>> ELSE <<tokens[k + 1]>>

getTokenAmountScaled(pools, tokenAddress, amount) ==
    LET tokens == ConcatAll([i \in 1..Len(pools) |-> pools[i].tokens])
        token == findToken(tokens, tokenAddress)
    IN  IF token = <<>> THEN Thrown("No token found with address: ", tokenAddress)
        ELSE parseFixed(amount, token[1].decimals)

\* the first error of a list of outcomes, if any
FirstThrown(outcomes) ==
    LET k == FirstIndex({i \in 1..Len(outcomes) : ~outcomes[i].ok})
    IN  IF k = -1 THEN <<>> ELSE outcomes[k + 1].error

Values(outcomes) == [i \in 1..Len(outcomes) |-> outcomes[i].value]

\* tokens.find((token) => token.address === AddressZero)
nativeTokenOf(params) ==
    LET k == indexOf([i \in 1..Len(params.tokens) |-> params.tokens[i].address],
                     AddressZero)
    IN  IF k = -1 THEN <<>> ELSE <<params.tokens[k + 1]>>

\* token?.amount || '0'
amountOrZero(token) == IF token = <<>> THEN Decimal(0, <<>>) ELSE token[1].amount

joinTokensIn(params, nestedLinearPools) ==
    [k \in 1..Len(nestedLinearPools) |->
        IF nativeTokenOf(params) # <<>>
           /\ nestedLinearPools[k].mainToken = toLowerCase(wrappedNativeAssetConfig)
        THEN AddressZero
        ELSE nestedLinearPools[k].mainToken]

joinTokensOut(nestedLinearPools) ==
    [k \in 1..Len(nestedLinearPools) |-> nestedLinearPools[k].poolTokenAddress]

\* the amounts of the nested swap, each an outcome
joinAmounts(pools, params, tokensIn, nativeAssetValue) ==
    [k \in 1..Len(tokensIn) |->
        IF tokensIn[k] = AddressZero THEN Found(nativeAssetValue)
        ELSE getTokenAmountScaled(pools, tokensIn[k],
                                  amountOrZero(findToken(params.tokens, tokensIn[k])))]

\* joinPool up to its await: the error thrown, or the locals it goes on with;
\* awaits tells whether it asks the router
joinBeforeQuery(pools, params) ==
    LET pool == getRequiredPool(pools, params.poolId)
        nestedLinearPools == getNestedLinearPools(pools, pool.value)
        nativeToken == nativeTokenOf(params)
        nativeAssetValue == IF nativeToken # <<>>
                            THEN parseFixed(nativeToken[1].amount, 18)
                            ELSE Found(Zero)
        tokensIn == joinTokensIn(params, nestedLinearPools)
        tokensOut == joinTokensOut(nestedLinearPools)
        amounts == joinAmounts(pools, params, tokensIn, nativeAssetValue.value)
        locals == [pool |-> pool.value,
                   nestedLinearPools |-> nestedLinearPools,
                   nativeAssetValue |-> nativeAssetValue.value,
                   tokensIn |-> tokensIn,
                   tokensOut |-> tokensOut]
        Throw(e) == [ok |-> FALSE, error |-> e, awaits |-> FALSE,
                     locals |-> <<>>, query |-> <<>>]
    IN  IF ~pool.ok THEN Throw(pool.error)
        ELSE IF ~nativeAssetValue.ok THEN Throw(nativeAssetValue.error)
        ELSE IF Len(nestedLinearPools) = 0
        THEN [ok |-> TRUE, error |-> <<>>, awaits |-> FALSE,
              locals |-> locals, query |-> <<>>]
        ELSE IF FirstThrown(amounts) # <<>> THEN Throw(FirstThrown(amounts))
        ELSE [ok |-> TRUE, error |-> <<>>, awaits |-> TRUE, locals |-> locals,
              query |-> [tokensIn |-> tokensIn, tokensOut |-> tokensOut,
                         swapType |-> "SwapExactIn", amounts |-> Values(amounts),
                         fetchPools |-> params.fetchPools]]

\* the batch swap of main tokens for nested pool tokens
joinBatchSwap(params, locals, queryResult) ==
    BatchSwapCall(queryResult.swaps, queryResult.assets, params.funds,
                  getLimitsForSlippage(locals.tokensIn, locals.tokensOut,
                                       "SwapExactIn", queryResult.deltas,
                                       queryResult.assets, params.slippage),
                  locals.nativeAssetValue,
                  [k \in 1..Len(queryResult.assets) |->
                      OutputReference(k - 1, toChainedReference(BN(k - 1)))])

\* queryResult?.assets.findIndex(...) || -1: 0 is falsy, and gives -1 too
joinAssetIndex(queryResult, tokenAddress) ==
    LET found == IF queryResult = <<>> THEN -1
                 ELSE findIndexLower(queryResult[1].assets, tokenAddress)
    IN  IF found = 0 THEN -1 ELSE found

\* one entry of amountsIn, an outcome: the scaled amount of a token the caller
\* supplies, else "0" or the chained reference of the token's asset index
joinAmountIn(pools, params, queryResult, tokenAddress) ==
    LET token == findToken(params.tokens, tokenAddress)
        index == joinAssetIndex(queryResult, tokenAddress)
    IN  IF token # <<>>
        THEN getTokenAmountScaled(pools, tokenAddress, amountOrZero(token))
        ELSE IF index = -1
                \/ (index < Len(queryResult[1].returnAmounts)
                    /\ queryResult[1].returnAmounts[index + 1] = Zero)
        THEN Found(Zero)
        ELSE Found(toChainedReference(BN(index)))

\* vaultActionsService.encodeJoinPool(...)
joinPoolCallOf(params, locals, amountsIn) ==
    LET pool == locals.pool
        stakeBptInFarm == params.farmId # <<>>
    IN  [kind |-> "joinPool", poolId |-> pool.id, poolKind |-> 0,
         sender |-> params.funds.sender,
         recipient |-> IF stakeBptInFarm THEN batchRelayerAddress
                       ELSE params.funds.recipient,
         assets |-> pool.tokensList,
         maxAmountsIn |-> amountsIn,
         userData |-> [amountsIn |-> amountsIn, bptOut |-> params.bptOut],
         fromInternalBalance |-> params.funds.fromInternalBalance,
         value |-> IF indexOf(pool.tokensList, toLowerCase(wrappedNativeAssetConfig)) # -1
                      /\ locals.nativeAssetValue # Zero
                   THEN locals.nativeAssetValue ELSE Zero,
         outputReference |-> IF stakeBptInFarm THEN toChainedReference(BN(0))
                             ELSE Zero]

\* masterChefStakingService.encodeDeposit(...)
depositCallOf(params, locals) ==
    [kind |-> "deposit", sender |-> batchRelayerAddress,
     recipient |-> params.funds.recipient, token |-> locals.pool.address,
     pid |-> params.farmId[1], amount |-> toChainedReference(BN(0)),
     outputReference |-> Zero]

\* joinPool from the router's reply on (queryResult is <<>> when the router
\* was not asked, else <<reply>>)
joinAfterQuery(pools, params, locals, queryResult) ==
    LET pool == locals.pool
        amountsIn == [k \in 1..Len(pool.tokensList) |->
                         joinAmountIn(pools, params, queryResult, pool.tokensList[k])]
        swapCalls == IF queryResult # <<>>
                     THEN <<joinBatchSwap(params, locals, queryResult[1])>>
                     ELSE <<>>
        joinCalls == IF pool.poolType = "Weighted"
                     THEN <<joinPoolCallOf(params, locals, Values(amountsIn))>>
                     ELSE <<>>
        farmCalls == IF params.farmId # <<>>
                     THEN <<depositCallOf(params, locals)>>
                     ELSE <<>>
    IN  IF pool.poolType = "Weighted" /\ FirstThrown(amountsIn) # <<>>
        THEN Rejected("joinPool", FirstThrown(amountsIn))
        ELSE Returned("joinPool", swapCalls \o joinCalls \o farmCalls, <<>>)

\* ------------------------------------------------------------------------
\* swapUnwrapExactIn, swapUnwrapExactOut, encodeSwapUnwrap
\* ------------------------------------------------------------------------

\* BigNumber.abs: the values that occur are not negative
BnAbs(a) == a

\* encodeSwapUnwrap: the batch swap with the unwraps' output references, then
\* the unwrap calls; or the error encodeUnwrapCalls throws
encodeSwapUnwrap(pools, wrappedTokens, swapType, swaps, assets, funds, limits) ==
    LET unwrap == encodeUnwrapCalls(pools, wrappedTokens, assets, funds)
        encodedBatchSwap ==
            [BatchSwapCall(swaps, assets, funds, limits, Zero,
                           unwrap.outputReferences) EXCEPT !.swapType = swapType]
    IN  IF ~unwrap.ok THEN [ok |-> FALSE, error |-> unwrap.error, calls |-> <<>>]
        ELSE [ok |-> TRUE, error |-> <<>>,
              calls |-> <<encodedBatchSwap>> \o unwrap.unwrapCalls]

\* the argument of swaps.queryBatchSwapWithSor in swapUnwrapExactIn
swapUnwrapExactInQuery(params) ==
    [tokensIn |-> params.tokensIn,
     tokensOut |-> params.wrappedTokens,
     swapType |-> "SwapExactIn",
     amounts |-> params.amounts,
     fetchPools |-> params.fetchPools]

\* BigNumber.from(amountWrapped).abs().mul(rates[i]).div(WeiPerEther), an
\* outcome: mul throws when rates has no entry i
amountUnwrapped(amountWrapped, rates, i) ==
    IF i > Len(rates) THEN Thrown("invalid BigNumber value", "undefined")
    ELSE Found(BnDiv(BnMul(BnAbs(amountWrapped), rates[i]), WeiPerEther))

\* swapUnwrapExactIn from the router's reply on
swapUnwrapExactInAfterQuery(pools, params, queryResult) ==
    LET limits == getLimitsForSlippage(params.tokensIn, params.wrappedTokens,
                                       "SwapExactIn", queryResult.deltas,
                                       queryResult.assets, params.slippage)
        calls == encodeSwapUnwrap(pools, params.wrappedTokens, "SwapExactIn",
                                  queryResult.swaps, queryResult.assets,
                                  params.funds, limits)
        amountsUnwrapped == [i \in 1..Len(queryResult.returnAmounts) |->
                                amountUnwrapped(queryResult.returnAmounts[i],
                                                params.rates, i)]
    IN  IF ~calls.ok THEN Rejected("swapUnwrapExactIn", calls.error)
        ELSE IF FirstThrown(amountsUnwrapped) # <<>>
        THEN Rejected("swapUnwrapExactIn", FirstThrown(amountsUnwrapped))
        ELSE Returned("swapUnwrapExactIn", calls.calls, Values(amountsUnwrapped))

\* BigNumber.from(amountInwrapped).mul(WeiPerEther).div(rates[i]), an outcome:
\* div throws when rates has no entry i, and when the rate is zero
amountWrapped(amountUnwrapped_, rates, i) ==
    IF i > Len(rates) THEN Thrown("invalid BigNumber value", "undefined")
    ELSE IF BnIsZero(rates[i]) THEN Thrown("division-by-zero", "")
    ELSE Found(BnDiv(BnMul(amountUnwrapped_, WeiPerEther), rates[i]))

\* swapUnwrapExactOut up to its await: the error thrown, or the query
swapUnwrapExactOutBeforeQuery(params) ==
    LET amountsWrapped == [i \in 1..Len(params.amounts) |->
                              amountWrapped(params.amounts[i], params.rates, i)]
    IN  IF FirstThrown(amountsWrapped) # <<>>
        THEN [ok |-> FALSE, error |-> FirstThrown(amountsWrapped), query |-> <<>>]
        ELSE [ok |-> TRUE, error |-> <<>>,
              query |-> [tokensIn |-> params.tokensIn,
                         tokensOut |-> params.wrappedTokens,
                         swapType |-> "SwapExactOut",
                         amounts |-> Values(amountsWrapped),
                         fetchPools |-> params.fetchPools]]

\* swapUnwrapExactOut from the router's reply on; its outputs are amountsIn
swapUnwrapExactOutAfterQuery(pools, params, queryResult) ==
    LET limits == getLimitsForSlippage(params.tokensIn, params.wrappedTokens,
                                       "SwapExactOut", queryResult.deltas,
                                       queryResult.assets, params.slippage)
        calls == encodeSwapUnwrap(pools, params.wrappedTokens, "SwapExactOut",
                                  queryResult.swaps, queryResult.assets,
                                  params.funds, limits)
    IN  IF ~calls.ok
        THEN [amountsIn |-> <<>>] @@ Rejected("swapUnwrapExactOut", calls.error)
        ELSE [amountsIn |-> queryResult.returnAmounts]
                 @@ Returned("swapUnwrapExactOut", calls.calls, <<>>)

\* ------------------------------------------------------------------------
\* The router (swaps.queryBatchSwapWithSor): an oracle.  Its replies are
\* drawn from the sets below.
\* ------------------------------------------------------------------------

MaxSwaps == 2

\* the deduplicated list: each address once, at its first position
Dedupe(arr) ==
    LET first(i) == \A j \in 1..(i - 1) : toLowerCase(arr[j]) # toLowerCase(arr[i])
        idx == SelectSeq([i \in 1..Len(arr) |-> i], first)
    IN  [k \in 1..Len(idx) |-> arr[idx[k]]]

\* the asset lists the router may answer a query with: the query's tokens,
\* inputs first, as given or lower-cased, or outputs first and without the
\* first input (no path found for it)
RouterAssets(query) ==
    LET inOut == Dedupe(query.tokensIn \o query.tokensOut)
        outIn == Dedupe(query.tokensOut \o Tail(query.tokensIn))
    IN  {inOut, MapLower(inOut), outIn}

\* the amount the router writes into a leg
RouterLegAmounts == {BN(77)}

RouterLegs(n) ==
    [poolId : {"pool-r"}, assetInIndex : 0..(n - 1), assetOutIndex : {n - 1},
     amount : RouterLegAmounts, userData : {"0x"}]

SeqsUpTo(S, n) == UNION {[1..k -> S] : k \in 1..n}

\* the replies to a query, with return amounts drawn from returns
RouterReplies(query, returns) ==
    UNION { [swaps : SeqsUpTo(RouterLegs(Len(assets)), MaxSwaps),
             assets : {assets},
             deltas : {[i \in 1..Len(assets) |-> BN(500 + i)]},
             returnAmounts : [1..Len(query.tokensOut) -> returns]]
            : assets \in RouterAssets(query) }

\* ------------------------------------------------------------------------
\* State
\* ------------------------------------------------------------------------

VARIABLES
    pools,      \* the router's pool list: swaps.getPools()
    pc,         \* "idle", or the await a call is suspended at
    frame,      \* the suspended call's arguments
    result,     \* the outcome of the call that finished last
    refKeys,    \* the keys of the last two toChainedReference calls, latest first
    refVals,    \* the references those calls returned
    queries     \* the queries the router got from the call in progress or
                \* settled, in order

vars == <<pools, pc, frame, result, refKeys, refVals, queries>>

NoFrame == [op |-> "none"]
NoResult == [op |-> "none", status |-> "none"]

\* a finished call: what it was given, what it asked the router and what the
\* router replied (<<>> when it did not ask), the pool list it ended with,
\* and its outcome
Finished(params, query, queryResult, poolList, outcome) ==
    [op |-> outcome.op, status |-> outcome.status, error |-> outcome.error,
     function |-> outcome.function, params |-> outcome.params,
     amountsOut |-> outcome.amountsOut,
     args |-> params, query |-> query, queryResult |-> queryResult,
     pools |-> poolList]

\* the relayer after construction: the router has fetched no pools yet
InitRelayer ==
    /\ pools = <<>>
    /\ pc = "idle"
    /\ frame = NoFrame
    /\ result = NoResult
    /\ queries = <<>>

\* ------------------------------------------------------------------------
\* Inputs
\* ------------------------------------------------------------------------

OnePercent == <<0, 0, 0, 0, 0, 10>>

\* 1 %, 1.5 % and 100 % of 10^18, and no slippage
Slippages == {Zero, OnePercent, <<0, 0, 0, 0, 0, 15>>, WeiPerEther}

ExitParams ==
    [exiter : {"0xex"}, swapRecipient : {"0xsr"}, poolId : {"pool-wp"},
     exitTokens : {<<"0xaa", "0xbb">>, <<"0xAA", "0xbb">>},
     userData : {"0xud"},
     expectedAmountsOut : {<<BN(100), BN(200)>>},
     batchSwapTokensOut : {<<"0xcc", "0xwa">>, <<"0xWA">>},
     slippage : Slippages,
     unwrap : BOOLEAN,
     fetchPools : {"fetch"}]

\* what the router estimates an exit's swaps to return
ExitReturnAmounts == {BN(99), BN(250)}

\* one exit, from a pool whose id no pool list holds
PlainExitParams ==
    {[p EXCEPT !.poolId = "pool-zz"] :
        p \in {q \in ExitParams : /\ q.exitTokens = <<"0xaa", "0xbb">>
                                  /\ q.batchSwapTokensOut = <<"0xWA">>
                                  /\ q.slippage = OnePercent
                                  /\ ~q.unwrap}}

JoinToken(address, amount) == [address |-> address, amount |-> amount]

\* the tokens a caller joins with: both main tokens; the native asset and a
\* main token; a nested pool's token and a main token
JoinTokens ==
    { <<JoinToken("0xAA", Decimal(1, <<5>>)), JoinToken("0xbb", Decimal(2, <<>>))>>,
      <<JoinToken(AddressZero, Decimal(2, <<>>)), JoinToken("0xaa", Decimal(1, <<5>>))>>,
      <<JoinToken("0x1a", Decimal(1, <<>>)), JoinToken("0xbb", Decimal(2, <<>>))>> }

JoinParams ==
    [poolId : {"pool-wp", "pool-st", "pool-zz"},
     tokens : JoinTokens,
     bptOut : {BN(1)},
     fetchPools : {"fetch"},
     slippage : {OnePercent},
     funds : {[sender |-> "0xus", recipient |-> "0xus",
               fromInternalBalance |-> FALSE, toInternalBalance |-> FALSE]},
     farmId : {<<>>, <<0>>}]

\* what the router estimates a join's swaps to return
JoinReturnAmounts == {Zero, BN(5)}

\* ------------------------------------------------------------------------
\* Actions
\* ------------------------------------------------------------------------

\* fetchPools(): the router replaces its pool list.  A settled promise's
\* continuation runs before any other task, so none is taken at "settled".
FetchPools ==
    /\ pc # "settled"
    /\ \E list \in PoolLists : pools' = list
    /\ UNCHANGED <<pc, frame, result, refKeys, refVals, queries>>

\* exitPoolAndBatchSwap(params) up to its await, for params drawn from P
ExitCall(P) ==
    /\ pc = "idle"
    /\ \E params \in P :
          LET exitCall == exitCallOf(params)
          IN  /\ frame' = [op |-> "exitPoolAndBatchSwap", params |-> params,
                           exitCall |-> exitCall,
                           query |-> exitQuery(params, exitCall)]
              /\ queries' = <<exitQuery(params, exitCall)>>
    /\ pc' = "exitAwait"
    /\ UNCHANGED <<pools, result, refKeys, refVals>>

ExitPoolAndBatchSwapCall == ExitCall(ExitParams)

\* the router's reply resumes exitPoolAndBatchSwap, which runs to its end
ExitPoolAndBatchSwapResume ==
    /\ pc = "exitAwait"
    /\ \E queryResult \in RouterReplies(frame.query, ExitReturnAmounts) :
          result' = Finished(frame.params, frame.query, queryResult, pools,
                             exitAfterQuery(pools, frame.params, frame.exitCall,
                                            queryResult))
    /\ pc' = "settled"
    /\ frame' = NoFrame
    /\ UNCHANGED <<pools, refKeys, refVals, queries>>

\* the errors the router's query can fail with
RouterErrors == {<<"SOR query failed: ", "no route">>, <<"network error: ", "timeout">>}

\* what a finished call holds for the router's reply when the query failed
QueryRejected(error) == [rejected |-> error]

RouterFailed == result.queryResult \in {QueryRejected(e) : e \in RouterErrors}

RouterQueryFails_RetryOnce ==
    /\ pc \in {"exitAwait", "joinAwait", "swapUnwrapAwait"}
    /\ IF Len(queries) < 2
       THEN /\ queries' = Append(queries, frame.query)
            /\ UNCHANGED <<pc, frame, result>>
       ELSE /\ \E error \in RouterErrors :
                  result' = Finished(frame.params, frame.query, QueryRejected(error),
                                     pools, Rejected(frame.op, error))
            /\ pc' = "settled"
            /\ frame' = NoFrame
            /\ queries' = queries
    /\ UNCHANGED <<pools, refKeys, refVals>>

\* the router's promise rejects: the await throws in the suspended call,
\* which has no try around it, so the call's promise rejects with the error
RouterQueryFails ==
    /\ pc \in {"exitAwait", "joinAwait", "swapUnwrapAwait"}
    /\ \E error \in RouterErrors :
          result' = Finished(frame.params, frame.query, QueryRejected(error), pools,
                             Rejected(frame.op, error))
    /\ pc' = "settled"
    /\ frame' = NoFrame
    /\ UNCHANGED <<pools, refKeys, refVals, queries>>

\* the caller's continuation takes the settled call's outcome
Return ==
    /\ pc = "settled"
    /\ pc' = "idle"
    /\ result' = NoResult
    /\ queries' = <<>>
    /\ UNCHANGED <<pools, frame, refKeys, refVals>>

InitSpec ==
    /\ InitRelayer
    /\ refKeys = <<>>
    /\ refVals = <<>>

\* joinPool(params) up to its await, or to its end when it does not await
JoinPoolCall ==
    /\ pc = "idle"
    /\ \E params \in JoinParams :
          LET before == joinBeforeQuery(pools, params)
          IN  IF ~before.ok
              THEN /\ result' = Finished(params, <<>>, <<>>, pools,
                                         Rejected("joinPool", before.error))
                   /\ pc' = "settled"
                   /\ frame' = NoFrame
                   /\ queries' = queries
              ELSE IF before.awaits
              THEN /\ frame' = [op |-> "joinPool", params |-> params,
                                locals |-> before.locals, query |-> before.query]
                   /\ pc' = "joinAwait"
                   /\ result' = result
                   /\ queries' = <<before.query>>
              ELSE /\ result' = Finished(params, <<>>, <<>>, pools,
                                         joinAfterQuery(pools, params,
                                                        before.locals, <<>>))
                   /\ pc' = "settled"
                   /\ frame' = NoFrame
                   /\ queries' = queries
    /\ UNCHANGED <<pools, refKeys, refVals>>

\* the router's reply resumes joinPool, which runs to its end
JoinPoolResume ==
    /\ pc = "joinAwait"
    /\ \E queryResult \in RouterReplies(frame.query, JoinReturnAmounts) :
          result' = Finished(frame.params, frame.query, queryResult, pools,
                             joinAfterQuery(pools, frame.params, frame.locals,
                                            <<queryResult>>))
    /\ pc' = "settled"
    /\ frame' = NoFrame
    /\ UNCHANGED <<pools, refKeys, refVals, queries>>

ExitPoolAndBatchSwapCallPlain == ExitCall(PlainExitParams)

NextJoin ==
    \/ FetchPools
    \/ JoinPoolCall
    \/ JoinPoolResume
    \/ ExitPoolAndBatchSwapCallPlain
    \/ ExitPoolAndBatchSwapResume
    \/ RouterQueryFails
    \/ Return

SpecJoin == InitSpec /\ [][NextJoin]_vars

\* the wrapped tokens a caller names, and the asset lists of a swap
MaxWrapped == 2

WrappedTokens == {"0xwa", "0xwb", "0xwc", "0xwd"}

WrappedTokenLists == {<<>>} \cup SeqsUpTo(WrappedTokens, MaxWrapped)

UnwrapAssets ==
    { <<"0xaa", "0xwa">>,
      <<"0xWB", "0xbb", "0xwa">>,
      <<"0xbb", "0xwb">>,
      <<"0xcc", "0xwd">> }

UnwrapFunds ==
    [sender |-> "0xus", recipient |-> batchRelayerAddress,
     fromInternalBalance |-> FALSE, toInternalBalance |-> FALSE]

\* encodeUnwrapCalls(wrappedTokens, assets, funds): it does not await
EncodeUnwrapCallsCall ==
    /\ pc = "idle"
    /\ \E wrappedTokens \in WrappedTokenLists, assets \in UnwrapAssets :
          LET outcome == encodeUnwrapCalls(pools, wrappedTokens, assets, UnwrapFunds)
          IN  result' = [op |-> "encodeUnwrapCalls",
                         status |-> IF outcome.ok THEN "returned" ELSE "thrown",
                         error |-> outcome.error,
                         unwrapCalls |-> outcome.unwrapCalls,
                         outputReferences |-> outcome.outputReferences,
                         args |-> [wrappedTokens |-> wrappedTokens,
                                   assets |-> assets, funds |-> UnwrapFunds],
                         pools |-> pools]
    /\ pc' = "settled"
    /\ UNCHANGED <<pools, frame, refKeys, refVals, queries>>

NextUnwrap ==
    \/ FetchPools
    \/ EncodeUnwrapCallsCall
    \/ Return

SpecUnwrap == InitSpec /\ [][NextUnwrap]_vars

NextExit ==
    \/ FetchPools
    \/ ExitPoolAndBatchSwapCall
    \/ ExitPoolAndBatchSwapResume
    \/ RouterQueryFails
    \/ Return

SpecExit == InitSpec /\ [][NextExit]_vars

\* ------------------------------------------------------------------------
\* swapUnwrapExactIn and swapUnwrapExactOut as operations
\* ------------------------------------------------------------------------

\* a rate of 1.5, in units of 10^-18
RateOneAndHalf == <<0, 0, 0, 0, 0, 500, 1>>

\* the token lists and rates a caller swaps and unwraps with
SwapUnwrapTokens ==
    { [tokensIn |-> <<"0xaa">>, wrappedTokens |-> <<"0xwa">>,
       rates |-> <<RateOneAndHalf>>],
      [tokensIn |-> <<"0xAA", "0xbb">>, wrappedTokens |-> <<"0xwa", "0xwb">>,
       rates |-> <<RateOneAndHalf, WeiPerEther>>],
      [tokensIn |-> <<"0xcc">>, wrappedTokens |-> <<"0xwc">>,
       rates |-> <<WeiPerEther>>],
      [tokensIn |-> <<"0xaa">>, wrappedTokens |-> <<"0xwa", "0xwd">>,
       rates |-> <<RateOneAndHalf, WeiPerEther>>],
      [tokensIn |-> <<"0xaa">>, wrappedTokens |-> <<"0xwa">>,
       rates |-> <<Zero>>],
      [tokensIn |-> <<"0xbb">>, wrappedTokens |-> <<"0xwb", "0xwa">>,
       rates |-> <<WeiPerEther>>] }

SwapUnwrapAmounts == {BN(300)}

\* the arguments of a call whose amounts are one per token of the list named
SwapUnwrapParams(amountsPer) ==
    UNION { [tokensIn : {t.tokensIn}, wrappedTokens : {t.wrappedTokens},
             amounts : [1..Len(t[amountsPer]) -> SwapUnwrapAmounts],
             rates : {t.rates}, funds : {UnwrapFunds}, slippage : {OnePercent},
             fetchPools : {"fetch"}] : t \in SwapUnwrapTokens }

\* what the router estimates the swaps to return
SwapUnwrapReturnAmounts == {BN(250)}

\* swapUnwrapExactIn(...) up to its await
SwapUnwrapExactInCall ==
    /\ pc = "idle"
    /\ \E params \in SwapUnwrapParams("tokensIn") :
          /\ frame' = [op |-> "swapUnwrapExactIn", params |-> params,
                       query |-> swapUnwrapExactInQuery(params)]
          /\ queries' = <<swapUnwrapExactInQuery(params)>>
    /\ pc' = "swapUnwrapAwait"
    /\ UNCHANGED <<pools, result, refKeys, refVals>>

\* swapUnwrapExactOut(...) up to its await, or to the error it throws first
SwapUnwrapExactOutCall ==
    /\ pc = "idle"
    /\ \E params \in SwapUnwrapParams("wrappedTokens") :
          LET before == swapUnwrapExactOutBeforeQuery(params)
          IN  IF ~before.ok
              THEN /\ result' = Finished(params, <<>>, <<>>, pools,
                                         Rejected("swapUnwrapExactOut", before.error))
                   /\ pc' = "settled"
                   /\ frame' = NoFrame
                   /\ queries' = queries
              ELSE /\ frame' = [op |-> "swapUnwrapExactOut", params |-> params,
                                query |-> before.query]
                   /\ pc' = "swapUnwrapAwait"
                   /\ result' = result
                   /\ queries' = <<before.query>>
    /\ UNCHANGED <<pools, refKeys, refVals>>

\* the router's reply resumes swapUnwrapExactIn, which runs to its end
SwapUnwrapExactInResume ==
    /\ pc = "swapUnwrapAwait"
    /\ frame.op = "swapUnwrapExactIn"
    /\ \E queryResult \in RouterReplies(frame.query, SwapUnwrapReturnAmounts) :
          result' = Finished(frame.params, frame.query, queryResult, pools,
                             swapUnwrapExactInAfterQuery(pools, frame.params,
                                                         queryResult))
    /\ pc' = "settled"
    /\ frame' = NoFrame
    /\ UNCHANGED <<pools, refKeys, refVals, queries>>

\* the router's reply resumes swapUnwrapExactOut, which runs to its end
SwapUnwrapExactOutResume ==
    /\ pc = "swapUnwrapAwait"
    /\ frame.op = "swapUnwrapExactOut"
    /\ \E queryResult \in RouterReplies(frame.query, SwapUnwrapReturnAmounts) :
          LET outcome == swapUnwrapExactOutAfterQuery(pools, frame.params, queryResult)
          IN  result' = [amountsIn |-> outcome.amountsIn]
                            @@ Finished(frame.params, frame.query, queryResult,
                                        pools, outcome)
    /\ pc' = "settled"
    /\ frame' = NoFrame
    /\ UNCHANGED <<pools, refKeys, refVals, queries>>

\* an exit that unwraps, to the wrapped token of a linear pool that has no
\* wrappedIndex, or to that of one that has
UnwrapExitParams ==
    {[p EXCEPT !.batchSwapTokensOut = out] :
        out \in {<<"0xwc">>, <<"0xwa">>},
        p \in {q \in ExitParams : /\ q.exitTokens = <<"0xaa", "0xbb">>
                                  /\ q.batchSwapTokensOut = <<"0xWA">>
                                  /\ q.slippage = OnePercent
                                  /\ q.unwrap}}

ExitPoolAndBatchSwapCallUnwrap == ExitCall(UnwrapExitParams)

\* the four compositions, with fetchPools in between
NextCompose ==
    \/ FetchPools
    \/ JoinPoolCall
    \/ JoinPoolResume
    \/ SwapUnwrapExactInCall
    \/ SwapUnwrapExactInResume
    \/ SwapUnwrapExactOutCall
    \/ SwapUnwrapExactOutResume
    \/ ExitPoolAndBatchSwapCallUnwrap
    \/ ExitPoolAndBatchSwapResume
    \/ RouterQueryFails
    \/ Return

SpecCompose == InitSpec /\ [][NextCompose]_vars

\* ------------------------------------------------------------------------
\* toChainedReference as an operation: Relayer.toChainedReference(key)
\* ------------------------------------------------------------------------

MaxKey == 8

TwoPow240 == BnPow(2^16, 15)
MaxUint256 == BnSub(BnPow(2^16, 16), <<1>>)

\* 2^256 - 1 - 0xba10 * 2^240: the largest key whose reference has 256 bits
MaxKeyIn256Bits == BnSub(MaxUint256, BnMul(BN(47632), TwoPow240))

\* keys around the prefix's bit position and around the 256-bit limit
LargeKeys ==
    { BnSub(TwoPow240, <<1>>),
      TwoPow240,
      MaxKeyIn256Bits,
      BnAdd(MaxKeyIn256Bits, <<1>>) }

Keys == {BN(i) : i \in 0..MaxKey} \cup LargeKeys

Keep1(s) == IF Len(s) = 0 THEN <<>> ELSE <<s[1]>>

ToChainedReferenceCall ==
    /\ \E key \in Keys :
        /\ refKeys' = <<key>> \o Keep1(refKeys)
        /\ refVals' = <<toChainedReference(key)>> \o Keep1(refVals)
    /\ UNCHANGED <<pools, pc, frame, result, queries>>

NextRef == ToChainedReferenceCall

SpecRef == InitSpec /\ [][NextRef]_vars

\* ------------------------------------------------------------------------
\* Claims on toChainedReference (checked under SpecRef)
\* ------------------------------------------------------------------------

\* C6: toChainedReference is injective: two calls with different keys return
\* different references, and subtracting the padded prefix from a reference
\* gives the key back.
C6_InjectiveAndDecodable ==
    /\ \A i, j \in DOMAIN refKeys :
          refKeys[i] # refKeys[j] => refVals[i] # refVals[j]
    /\ \A i \in DOMAIN refKeys :
          /\ BnLe(BnFromHex(paddedPrefix), refVals[i])
          /\ BnSub(refVals[i], BnFromHex(paddedPrefix)) = refKeys[i]

C6_Witness ==
    /\ Len(refKeys) = 2
    /\ refKeys[1] # refKeys[2]
    /\ refKeys[1] \in LargeKeys
    /\ refKeys[2] = BN(MaxKey)

\* the shape C7 describes, for the reference v returned for key k
RefShape(k, v) ==
    LET h == BnToHex(v, 64)
    IN  /\ Len(h) = 64
        /\ SubSeq(h, 1, 4) = <<11, 10, 1, 0>>
        /\ SubSeq(h, 5, 64) = BnToHex(k, 60)
        /\ v = BnAdd(BnMul(BN(47632), TwoPow240), k)
        /\ BnDiv(v, TwoPow240) = BN(47632)
        /\ BnLe(v, MaxUint256)

\* C7 as stated: for every non-negative index the reference is 64 hex digits,
\* ba10, zero padding, the big-endian index; equals 0xba10 * 2^240 + i; has
\* top 16 bits 0xba10; and is at most 2^256 - 1.
C7_EveryIndex ==
    \A i \in DOMAIN refKeys : RefShape(refKeys[i], refVals[i])

\* C7 amended: the same, for every index below 2^240.
C7_IndexBelow2Pow240 ==
    \A i \in DOMAIN refKeys :
        BnLt(refKeys[i], TwoPow240) => RefShape(refKeys[i], refVals[i])

C7_Witness ==
    /\ Len(refKeys) = 2
    /\ refKeys[1] = BnSub(TwoPow240, <<1>>)
    /\ refKeys[2] = BN(MaxKey)

\* ------------------------------------------------------------------------
\* Claims on exitPoolAndBatchSwap (checked under SpecExit)
\* ------------------------------------------------------------------------

\* q = floor(num / den), stated by multiplication
FloorOfRatio(q, num, den) ==
    /\ BnLe(BnMul(q, den), num)
    /\ BnLt(num, BnMul(BnAdd(q, <<1>>), den))

ExitSettled == result.op = "exitPoolAndBatchSwap"
ExitReturned == ExitSettled /\ result.status = "returned"

\* C1: in the batch swap that exitPoolAndBatchSwap encodes, every leg whose
\* input asset is one of the exit tokens has the amount toChainedReference(p),
\* p the token's position in exitTokens, and every other leg keeps the
\* router's amount.
C1_LegAmounts ==
    ExitReturned =>
        \A k \in 1..Len(result.queryResult.swaps) :
            LET leg == result.queryResult.swaps[k]
                encoded == result.params[2].swaps[k]
                token == result.queryResult.assets[leg.assetInIndex + 1]
                p == findIndexLower(result.args.exitTokens, token)
            IN  IF p # -1
                THEN encoded.amount = toChainedReference(BN(p))
                ELSE encoded.amount = leg.amount

\* C4: while exitPoolAndBatchSwap waits for the router, for every exit token i
\* minAmountsOut[i] = floor(expectedAmountsOut[i] * (10^18 - slippage) / 10^18),
\* which is at most expectedAmountsOut[i]; the router is asked about these
\* amounts; and [100, 200] at 1 % gives [99, 198].
C4_MinAmountsOutFloor ==
    pc = "exitAwait" =>
        LET expected == frame.params.expectedAmountsOut
            slippage == frame.params.slippage
            minAmountsOut == frame.exitCall.minAmountsOut
        IN  /\ Len(minAmountsOut) = Len(expected)
            /\ frame.query.amounts = minAmountsOut
            /\ \A i \in 1..Len(expected) :
                  /\ FloorOfRatio(minAmountsOut[i],
                                  BnSub(BnMul(expected[i], WeiPerEther),
                                        BnMul(expected[i], slippage)),
                                  WeiPerEther)
                  /\ BnLe(minAmountsOut[i], expected[i])
            /\ (slippage = OnePercent /\ expected = <<BN(100), BN(200)>>
                   => minAmountsOut = <<BN(99), BN(198)>>)

C4_Witness ==
    /\ pc = "exitAwait"
    /\ frame.params.slippage = OnePercent
    /\ frame.params.expectedAmountsOut = <<BN(100), BN(200)>>
    /\ frame.exitCall.minAmountsOut = <<BN(99), BN(198)>>

UnwrapHalves(i) ==
    LET hit == linearPoolWrappedTokenMap(
                   result.pools, toLowerCase(result.args.batchSwapTokensOut[i]))
    IN  IF result.args.unwrap /\ hit # <<>>
        THEN parseFloatHalves(hit[1].tokens[orZero(hit[1].wrappedIndex) + 1].priceRate)
        ELSE 2

JoinedNested ==
    /\ result.op = "joinPool"
    /\ result.status = "returned"
    /\ result.queryResult # <<>>
    /\ Len(result.params) >= 2
    /\ result.params[2].kind = "joinPool"

\* the positions in tokensOut of the nested swap at which token t is produced
LegsProducing(t) ==
    {j \in 1..Len(result.query.tokensOut) :
        toLowerCase(result.query.tokensOut[j]) = toLowerCase(t)}

\* C2: in a joinPool on a Weighted pool with nested pools, every pool token
\* the caller did not supply, that is at position k of the nested swap's
\* assets and has a non-zero estimated return, has the amountsIn entry
\* toChainedReference(k), for k = 0 as well.
C2_AmountInIsReference ==
    JoinedNested =>
        \A i \in 1..Len(result.params[2].assets) :
            LET t == result.params[2].assets[i]
                k == findIndexLower(result.queryResult.assets, t)
            IN  (/\ findToken(result.args.tokens, t) = <<>>
                 /\ k # -1
                 /\ LegsProducing(t) # {}
                 /\ \A j \in LegsProducing(t) :
                        result.queryResult.returnAmounts[j] # Zero)
                => result.params[2].maxAmountsIn[i] = toChainedReference(BN(k))

\* C3: in a joinPool, a pool token whose nested swap has the estimated return
\* "0" has the amountsIn entry "0", never a chained reference, wherever the
\* token is in the swap's assets and in the router's returnAmounts.
C3_ZeroReturnIsLiteralZero ==
    JoinedNested =>
        \A i \in 1..Len(result.params[2].assets) :
            LET t == result.params[2].assets[i]
            IN  (/\ findToken(result.args.tokens, t) = <<>>
                 /\ LegsProducing(t) # {}
                 /\ \A j \in LegsProducing(t) :
                        result.queryResult.returnAmounts[j] = Zero)
                => result.params[2].maxAmountsIn[i] = Zero

\* no pool list the router can hold has a pool with this id
InNoPoolList(poolId) ==
    \A list \in PoolLists : \A i \in 1..Len(list) : list[i].id # poolId

FailedNotFound ==
    /\ result.status = "rejected"
    /\ result.error[1] = "No pool found with id: "
    /\ result.error[2] = result.args.poolId
    /\ result.params = <<>>

\* C10 as stated: joinPool and exitPoolAndBatchSwap, given a pool id that no
\* pool of the router's list has, fail with a not-found error and return no
\* call list.
C10_UnknownPoolIdFails ==
    (/\ result.op \in {"joinPool", "exitPoolAndBatchSwap"}
     /\ InNoPoolList(result.args.poolId))
    => FailedNotFound

\* C10 amended: joinPool, called with a pool id that no pool of the router's
\* list has at the call, fails at once with a not-found error and returns no
\* call list.
C10_JoinUnknownPoolIdFails ==
    [][(/\ pc = "idle"
        /\ pc' = "joinAwait" \/ (pc' = "settled" /\ result'.op = "joinPool")
        /\ LET poolId == IF pc' = "joinAwait" THEN frame'.params.poolId
                         ELSE result'.args.poolId
           IN  \A i \in 1..Len(pools) : pools[i].id # poolId)
       => (/\ pc' = "settled"
           /\ result'.status = "rejected"
           /\ result'.error = <<"No pool found with id: ", result'.args.poolId>>
           /\ result'.params = <<>>)]_vars

C10_Witness ==
    /\ result.op = "joinPool"
    /\ result.args.poolId = "pool-zz"
    /\ Len(result.pools) > 0
    /\ result.status = "rejected"
    /\ result.error = <<"No pool found with id: ", "pool-zz">>
    /\ result.params = <<>>

\* ------------------------------------------------------------------------
\* Claims on encodeUnwrapCalls (checked under SpecUnwrap)
\* ------------------------------------------------------------------------

Unwrapped == result.op = "encodeUnwrapCalls"

\* the positions (from 1) of the wrapped tokens that are among the assets,
\* in order
PresentPositions ==
    LET IsPresent(i) == findIndexLower(result.args.assets,
                                       result.args.wrappedTokens[i]) # -1
    IN  SelectSeq([i \in 1..Len(result.args.wrappedTokens) |-> i], IsPresent)

SomeAbsent == Len(PresentPositions) < Len(result.args.wrappedTokens)

\* the output references of the present tokens only, and as many calls
OnlyPresentEncoded ==
    /\ result.status = "returned"
    /\ Len(result.outputReferences) = Len(PresentPositions)
    /\ Len(result.unwrapCalls) = Len(PresentPositions)
    /\ \A n \in 1..Len(PresentPositions) :
          result.outputReferences[n].key =
              toChainedReference(BN(PresentPositions[n] - 1))

\* C8 as stated: for any list of wrapped tokens of which some are not among
\* the assets, encodeUnwrapCalls returns normally, with calls and output
\* references for the present tokens only.
C8_AbsentTokensOmitted ==
    (Unwrapped /\ SomeAbsent) => OnlyPresentEncoded

\* some pool of the list has the token at its wrappedIndex
HasLinearPool(poolList, wrappedToken) ==
    \E i \in 1..Len(poolList) :
        /\ poolList[i].wrappedIndex # <<>>
        /\ poolList[i].tokensList[poolList[i].wrappedIndex[1] + 1] = wrappedToken

\* C8 amended: the same, for any list of wrapped tokens each of which has a
\* linear pool in the router's pool list.
C8_AbsentTokensOmittedWhenPooled ==
    (/\ Unwrapped
     /\ SomeAbsent
     /\ \A i \in 1..Len(result.args.wrappedTokens) :
           HasLinearPool(result.pools, result.args.wrappedTokens[i]))
    => OnlyPresentEncoded

C8_Witness ==
    /\ Unwrapped
    /\ result.status = "returned"
    /\ result.args.wrappedTokens = <<"0xwb", "0xwa">>
    /\ result.args.assets = <<"0xaa", "0xwa">>
    /\ Len(result.outputReferences) = 1
    /\ result.outputReferences[1] = OutputReference(1, toChainedReference(BN(1)))

\* C9: encodeUnwrapCalls emits, for each wrapped token that is among the
\* assets, one unwrap call and one output reference {index: the token's
\* position in assets, key}, and the call's amount is that key: the calls and
\* the output references have one length and correspond one to one, whatever
\* the tag of the pool's factory.
C9_OneCallOneReference ==
    (Unwrapped /\ result.status = "returned") =>
        /\ Len(result.unwrapCalls) = Len(result.outputReferences)
        /\ Len(result.outputReferences) = Len(PresentPositions)
        /\ \A n \in 1..Len(PresentPositions) :
              LET wrappedToken == result.args.wrappedTokens[PresentPositions[n]]
              IN  /\ result.outputReferences[n].index =
                         findIndexLower(result.args.assets, wrappedToken)
                  /\ n <= Len(result.unwrapCalls)
                  /\ result.unwrapCalls[n].amount = result.outputReferences[n].key

C9_Witness ==
    /\ Unwrapped
    /\ result.status = "returned"
    /\ result.args.wrappedTokens = <<"0xwa", "0xwb">>
    /\ result.args.assets = <<"0xWB", "0xbb", "0xwa">>
    /\ Len(result.unwrapCalls) = 2
    /\ result.unwrapCalls[1].kind = "yearnUnwrap"
    /\ result.unwrapCalls[2].kind = "booLeave"
    /\ result.outputReferences[2].index = 0

\* ------------------------------------------------------------------------
\* Claims on swapUnwrapExactIn, swapUnwrapExactOut and the unwrapping exit
\* (checked under SpecCompose)
\* ------------------------------------------------------------------------

SwapUnwrapSettled == result.op \in {"swapUnwrapExactIn", "swapUnwrapExactOut"}

\* the call asked the router and the router replied
RouterReplied == result.queryResult # <<>> /\ ~RouterFailed

\* the call failed with the not-found error for wrapped token t, and
\* returned no call
NotFoundWrapped(t) ==
    /\ result.status = "rejected"
    /\ result.error = <<"No linear pool found for wrapped token: ", t>>
    /\ result.params = <<>>

\* swapUnwrapExactIn and swapUnwrapExactOut, given a wrapped token that no
\* pool of the list has at its wrappedIndex, fail with the not-found error
\* for the first such token and return no call.
C11_SwapUnwrapFails ==
    (SwapUnwrapSettled /\ RouterReplied) =>
        LET wrappedTokens == result.args.wrappedTokens
            unknown == {i \in 1..Len(wrappedTokens) :
                           ~HasLinearPool(result.pools, wrappedTokens[i])}
        IN  unknown # {} => NotFoundWrapped(wrappedTokens[FirstIndex(unknown) + 1])

\* exitPoolAndBatchSwap with unwrap, when the swap's assets hold a wrapped
\* token (one the lookup map reports) that no pool of the list has at its
\* wrappedIndex, fails with the not-found error for such a token and returns
\* no call.
C11_ExitUnwrapFails ==
    (ExitSettled /\ result.args.unwrap /\ RouterReplied) =>
        LET assets == result.queryResult.assets
            unknown == {i \in 1..Len(assets) :
                           /\ linearPoolWrappedTokenMap(result.pools, assets[i]) # <<>>
                           /\ ~HasLinearPool(result.pools, assets[i])}
        IN  unknown # {} => \E i \in unknown : NotFoundWrapped(assets[i])

\* every wrapped token the lookup map linearPoolWrappedTokenMap reports is
\* found by getRequiredLinearPoolForWrappedToken.
C11_MapConsistent ==
    \A k \in 1..Len(linearPoolWrappedTokenKeys(pools)) :
        LET wrappedToken == linearPoolWrappedTokenKeys(pools)[k]
        IN  /\ linearPoolWrappedTokenMap(pools, wrappedToken) # <<>>
            /\ getRequiredLinearPoolForWrappedToken(pools, wrappedToken).ok

\* C11: a wrapped token for which no linear pool is known makes
\* swapUnwrapExactIn, swapUnwrapExactOut and exitPoolAndBatchSwap with unwrap
\* fail with a not-found error and no partial batch, and every wrapped token
\* that linearPoolWrappedTokenMap reports is also found by
\* getRequiredLinearPoolForWrappedToken.
C11_UnknownWrappedTokenFails ==
    /\ C11_SwapUnwrapFails
    /\ C11_ExitUnwrapFails
    /\ C11_MapConsistent

\* ------------------------------------------------------------------------
\* StablePoolPriceImpact.bptZeroPriceImpact.  bigint amounts are modelled as
\* the BigNumbers above.  parsePoolInfo, bptSpotPrice and _upscale are
\* imported from lib/utils; they are given as the design document describes
\* them.
\* ------------------------------------------------------------------------

\* solidityMaths: 10^18 and 0n
ONE == WeiPerEther
BZERO == Zero

\* a token of a Pool, with its balance in the token's own units
PoolToken(address, decimals, balance) ==
    [address |-> address, decimals |-> decimals, balance |-> balance]

\* a Pool of the price-impact concern
StablePool(address, poolType, tokens, totalShares, amp) ==
    [address |-> address, poolType |-> poolType, tokens |-> tokens,
     totalShares |-> totalShares, amp |-> amp]

\* _upscale(amount, scalingFactor)
upscale(amount, scalingFactor) == BnDiv(BnMul(amount, scalingFactor), ONE)

\* the token's scaling factor: 10^(18 - decimals), in units of 10^-18
scalingFactor(token) == BnMul(BnPow(10, 18 - token.decimals), ONE)

\* parsePoolInfo(pool): the values bptZeroPriceImpact takes from it.  The
\* token whose address is the pool's own (its BPT) is left out.
parsePoolInfo(pool) ==
    LET NotBpt(token) == token.address # pool.address
        tokens == SelectSeq(pool.tokens, NotBpt)
    IN  [ampWithPrecision |-> pool.amp * 1000,
         scalingFactorsWithoutBpt |->
             [i \in 1..Len(tokens) |-> scalingFactor(tokens[i])],
         totalSharesEvm |-> BnMul(BN(pool.totalShares), ONE),
         upScaledBalancesWithoutBpt |->
             [i \in 1..Len(tokens) |->
                 upscale(BN(tokens[i].balance), scalingFactor(tokens[i]))]]

RECURSIVE BnSum(_)
BnSum(amounts) ==
    IF Len(amounts) = 0 THEN Zero ELSE BnAdd(Head(amounts), BnSum(Tail(amounts)))

\* bptSpotPrice(amp, balances, bptSupply, tokenIndexIn): the price of token i
\* in BPT, in units of 10^-18, taken at balance, where the stable curve
\* prices every token at supply over total balance
bptSpotPrice(amp, balances, bptSupply, i) ==
    BnDiv(BnMul(bptSupply, ONE), BnSum(balances))

RECURSIVE zeroPriceImpactFrom(_, _, _, _)
\* the for loop from index i (0-based) on, bptZeroPriceImpact being acc:
\* <<the sum, the number of terms added>>
zeroPriceImpactFrom(info, tokenAmounts, i, acc) ==
    IF i >= Len(info.upScaledBalancesWithoutBpt) THEN <<acc, 0>>
    ELSE LET price == bptSpotPrice(info.ampWithPrecision,
                                   info.upScaledBalancesWithoutBpt,
                                   info.totalSharesEvm, i)
             amountUpscaled == upscale(tokenAmounts[i + 1],
                                       info.scalingFactorsWithoutBpt[i + 1])
             newTerm == BnDiv(BnMul(price, amountUpscaled), ONE)
             rest == zeroPriceImpactFrom(info, tokenAmounts, i + 1,
                                         BnAdd(acc, newTerm))
         IN  <<rest[1], rest[2] + 1>>

bptZeroPriceImpact_WithBpt(pool, tokenAmounts) ==
    LET info == parsePoolInfo(pool)
        sum == zeroPriceImpactFrom(info, tokenAmounts, 0, BZERO)
    IN  IF Len(tokenAmounts) # Len(pool.tokens)
        THEN [ok |-> FALSE, error |-> "INPUT_LENGTH_MISMATCH", value |-> <<>>,
              terms |-> 0]
        ELSE [ok |-> TRUE, error |-> "", value |-> sum[1], terms |-> sum[2]]

\* bptZeroPriceImpact(pool, tokenAmounts): the amount returned or the error
\* thrown, and the number of terms added to the sum
bptZeroPriceImpact(pool, tokenAmounts) ==
    LET info == parsePoolInfo(pool)
        sum == zeroPriceImpactFrom(info, tokenAmounts, 0, BZERO)
    IN  IF Len(tokenAmounts) # Len(info.upScaledBalancesWithoutBpt)
        THEN [ok |-> FALSE, error |-> "INPUT_LENGTH_MISMATCH", value |-> <<>>,
              terms |-> 0]
        ELSE [ok |-> TRUE, error |-> "", value |-> sum[1], terms |-> sum[2]]

\* the pools a price impact is asked for: stable pools of two and of three
\* tokens, and composable pools that hold their own BPT, first or in between
PriceImpactPools ==
    { StablePool("0xs2", "Stable",
                 <<PoolToken("0xaa", 6, 400), PoolToken("0xbb", 18, 600)>>, 1000, 200),
      StablePool("0xs3", "MetaStable",
                 <<PoolToken("0xaa", 6, 100), PoolToken("0xbb", 18, 200),
                   PoolToken("0xcc", 18, 300)>>, 500, 50),
      StablePool("0xsp", "StablePhantom",
                 <<PoolToken("0xsp", 18, 900000), PoolToken("0x1a", 18, 300),
                   PoolToken("0x1c", 18, 700)>>, 1000, 100),
      StablePool("0xsq", "StablePhantom",
                 <<PoolToken("0x1a", 18, 250), PoolToken("0xsq", 18, 900000),
                   PoolToken("0x1b", 18, 250), PoolToken("0x1c", 18, 500)>>,
                 2000, 100) }

MaxAmounts == 4

\* the token amounts being invested, in the tokens' own units
TokenAmounts == {<<>>} \cup SeqsUpTo({Zero, BN(5)}, MaxAmounts)

\* bptZeroPriceImpact(pool, tokenAmounts): it does not await
BptZeroPriceImpactCall ==
    /\ pc = "idle"
    /\ \E pool \in PriceImpactPools, tokenAmounts \in TokenAmounts :
          LET outcome == bptZeroPriceImpact(pool, tokenAmounts)
          IN  result' = [op |-> "bptZeroPriceImpact",
                         status |-> IF outcome.ok THEN "returned" ELSE "thrown",
                         error |-> outcome.error,
                         value |-> outcome.value,
                         terms |-> outcome.terms,
                         args |-> [pool |-> pool, tokenAmounts |-> tokenAmounts]]
    /\ pc' = "settled"
    /\ UNCHANGED <<pools, frame, refKeys, refVals, queries>>

NextPriceImpact ==
    \/ BptZeroPriceImpactCall
    \/ Return

SpecPriceImpact == InitSpec /\ [][NextPriceImpact]_vars

\* the number of the pool's tokens that are not its own BPT
TokensExcludingBpt(pool) ==
    Cardinality({i \in 1..Len(pool.tokens) : pool.tokens[i].address # pool.address})

\* C12: bptZeroPriceImpact fails with the input-length-mismatch error whenever
\* the number of token amounts differs from the number of pool tokens
\* excluding the pool's own BPT, and it fails before adding any term; when
\* the lengths are equal it does not raise that error.
C12_LengthMismatchFails ==
    result.op = "bptZeroPriceImpact" =>
        IF Len(result.args.tokenAmounts) # TokensExcludingBpt(result.args.pool)
        THEN /\ result.status = "thrown"
             /\ result.error = "INPUT_LENGTH_MISMATCH"
             /\ result.terms = 0
             /\ result.value = <<>>
        ELSE /\ result.status = "returned"
             /\ result.error # "INPUT_LENGTH_MISMATCH"
             /\ result.terms = Len(result.args.tokenAmounts)

C12_Witness ==
    /\ result.op = "bptZeroPriceImpact"
    /\ result.args.pool.poolType = "StablePhantom"
    /\ Len(result.args.tokenAmounts) = Len(result.args.pool.tokens)
    /\ result.status = "thrown"
    /\ result.error = "INPUT_LENGTH_MISMATCH"
    /\ result.terms = 0

\* ------------------------------------------------------------------------
\* Compositions with a fetchPools in between (checked under SpecCompose)
\* ------------------------------------------------------------------------

\* what the suspended call settles with when the router replies queryResult
\* and the pool list is poolList
OutcomeOn(poolList, queryResult) ==
    IF frame.op = "exitPoolAndBatchSwap"
    THEN exitAfterQuery(poolList, frame.params, frame.exitCall, queryResult)
    ELSE joinAfterQuery(poolList, frame.params, frame.locals, <<queryResult>>)

\* C13: a fetchPools that runs while joinPool or exitPoolAndBatchSwap is
\* suspended on the router query changes neither the pools the call resolves
\* after the await nor the calls it returns: whatever the router replies, the
\* call settles as it would have on the pool list it started with.
C13_SnapshotOfPools ==
    [][(/\ pc \in {"exitAwait", "joinAwait"}
        /\ pc' = pc
        /\ pools' # pools)
       => \A queryResult \in RouterReplies(frame.query,
                                           ExitReturnAmounts \cup JoinReturnAmounts) :
              OutcomeOn(pools', queryResult) = OutcomeOn(pools, queryResult)]_vars

\* ------------------------------------------------------------------------
\* More claims on exitPoolAndBatchSwap (checked under SpecExit)
\* ------------------------------------------------------------------------

\* the legs of the router's reply whose input asset is exit token i, whatever
\* the letter case
LegsOfExitToken(i) ==
    {k \in 1..Len(result.queryResult.swaps) :
        toLowerCase(result.queryResult.assets[
                        result.queryResult.swaps[k].assetInIndex + 1])
            = toLowerCase(result.args.exitTokens[i])}

\* every leg of exit token i has the exit's chained reference as its amount
LegsReferenced(i) ==
    \A k \in LegsOfExitToken(i) :
        result.params[2].swaps[k].amount = toChainedReference(BN(i - 1))

\* the delta of exit token i's asset, in the limits of the encoded swap, is
\* the expected amount with positive slippage
DeltaReplaced(i) ==
    LET index == findIndexLower(result.queryResult.assets, result.args.exitTokens[i])
        expected == result.args.expectedAmountsOut[i]
    IN  /\ index # -1
        /\ FloorOfRatio(result.params[2].limits.deltas[index + 1],
                        BnAdd(BnMul(expected, WeiPerEther),
                              BnMul(expected, result.args.slippage)),
                        WeiPerEther)

\* C14: in exitPoolAndBatchSwap the exit tokens whose swap legs get a chained
\* reference are the exit tokens whose delta is replaced, whatever the letter
\* case in exitTokens and in the router's assets; the delta of such a token
\* at position i becomes floor(expectedAmountsOut[i] * (10^18 + slippage) /
\* 10^18), and the deltas of all other assets are unchanged.
C14_ReferencedIffDeltaReplaced ==
    ExitReturned =>
        LET assets == result.queryResult.assets
            exitTokens == result.args.exitTokens
        IN  /\ \A i \in 1..Len(exitTokens) :
                  /\ LegsOfExitToken(i) # {} => (LegsReferenced(i) <=> DeltaReplaced(i))
                  /\ findIndexLower(assets, exitTokens[i]) # -1 => DeltaReplaced(i)
            /\ \A j \in 1..Len(assets) :
                  findIndexLower(exitTokens, assets[j]) = -1
                  => result.params[2].limits.deltas[j] = result.queryResult.deltas[j]

\* the part of C14 on the deltas alone
C14_DeltasOnly ==
    ExitReturned =>
        LET assets == result.queryResult.assets
            exitTokens == result.args.exitTokens
        IN  /\ \A i \in 1..Len(exitTokens) :
                  findIndexLower(assets, exitTokens[i]) # -1 => DeltaReplaced(i)
            /\ \A j \in 1..Len(assets) :
                  findIndexLower(exitTokens, assets[j]) = -1
                  => result.params[2].limits.deltas[j] = result.queryResult.deltas[j]

\* ------------------------------------------------------------------------
\* Claims on the chained references of a batch (checked under SpecCompose)
\* ------------------------------------------------------------------------

\* a composition that returned its batch
BatchReturned ==
    /\ result.op \in {"exitPoolAndBatchSwap", "joinPool",
                      "swapUnwrapExactIn", "swapUnwrapExactOut"}
    /\ result.status = "returned"

\* the output references the call declares: <<the slot's number in the call,
\* the key>>.  A join declares one when its outputReference is not 0; unwrap
\* and deposit calls declare none (outputReference 0).
DeclaredBy(call) ==
    IF call.kind \in {"exitPool", "batchSwap"}
    THEN {<<n, call.outputReferences[n].key>> : n \in 1..Len(call.outputReferences)}
    ELSE IF call.kind = "joinPool" /\ call.outputReference # Zero
    THEN {<<1, call.outputReference>>}
    ELSE {}

\* the output slots of the batch: <<the call's position, the slot's number in
\* the call, the key>>
DeclaredSlots ==
    UNION {{<<c, d[1], d[2]>> : d \in DeclaredBy(result.params[c])}
              : c \in 1..Len(result.params)}

\* C15: within one composed batch, distinct output slots have distinct
\* chained-reference keys: no two calls of the batch (exit, batch swap, join,
\* unwrap) declare an output reference with the same key for different
\* outputs.
C15_DistinctKeysPerSlot ==
    BatchReturned =>
        \A a, b \in DeclaredSlots : a # b => a[3] # b[3]

\* C16: when the router query fails, exitPoolAndBatchSwap, joinPool,
\* swapUnwrapExactIn and swapUnwrapExactOut fail with the router's error
\* unchanged, the router was queried exactly once, and no call list is
\* returned.
C16_RouterErrorPropagates ==
    /\ (result.op \in {"exitPoolAndBatchSwap", "joinPool",
                       "swapUnwrapExactIn", "swapUnwrapExactOut"}
        /\ RouterFailed)
       => /\ result.status = "rejected"
          /\ result.error \in RouterErrors
          /\ result.queryResult = QueryRejected(result.error)
          /\ result.params = <<>>
          /\ result.amountsOut = <<>>
          /\ queries = <<result.query>>
    /\ Len(queries) <= 1

C16_Witness ==
    /\ result.op = "swapUnwrapExactOut"
    /\ RouterFailed
    /\ result.status = "rejected"
    /\ result.error = <<"network error: ", "timeout">>
    /\ Len(queries) = 1

\* the amounts the call reads as inputs
ReadBy(call) ==
    IF call.kind = "batchSwap"
    THEN {call.swaps[k].amount : k \in 1..Len(call.swaps)}
    ELSE IF call.kind = "joinPool"
    THEN {call.maxAmountsIn[k] : k \in 1..Len(call.maxAmountsIn)}
             \cup {call.userData.amountsIn[k] : k \in 1..Len(call.userData.amountsIn)}
    ELSE IF call.kind \in {"aaveUnwrap", "yearnUnwrap", "booLeave", "deposit"}
    THEN {call.amount}
    ELSE {}

\* the amount is a chained reference: it has the prefix
IsReference(amount) == BnLe(paddedPrefixValue, amount)

\* C17: in every batch returned by exitPoolAndBatchSwap, joinPool,
\* swapUnwrapExactIn and swapUnwrapExactOut, each chained reference that a
\* call reads as an input amount is declared as an output reference by a call
\* that comes earlier in the call list.
C17_ReadsDeclaredEarlier ==
    BatchReturned =>
        \A c \in 1..Len(result.params) :
            \A amount \in ReadBy(result.params[c]) :
                IsReference(amount) =>
                    \E e \in 1..(c - 1) :
                        \E d \in DeclaredBy(result.params[e]) : d[2] = amount

\* ------------------------------------------------------------------------
\* More claims on joinPool (checked under SpecJoin)
\* ------------------------------------------------------------------------

\* the native amount the caller supplied, in wei
NativeSupplied ==
    LET nativeToken == nativeTokenOf(result.args)
    IN  IF nativeToken = <<>> THEN Zero
        ELSE parseFixed(nativeToken[1].amount, 18).value

\* the sum of the values attached to the calls of the batch
ValueAttached ==
    BnSum([c \in 1..Len(result.params) |->
              IF result.params[c].kind \in {"batchSwap", "joinPool"}
              THEN result.params[c].value ELSE Zero])

\* C18: in every batch returned by joinPool, the sum of the native-asset
\* values attached to its calls (the nested batch swap's and the join's) is
\* at most the native amount the caller supplied, and zero when the caller
\* supplied no native token.
C18_ValueWithinSupplied ==
    (result.op = "joinPool" /\ result.status = "returned") =>
        /\ BnLe(ValueAttached, NativeSupplied)
        /\ nativeTokenOf(result.args) = <<>> => ValueAttached = Zero

====
